---- MODULE Spec2Model ----
(***************************************************************************)
(* Model of src/desarrollo.py: the Requirement entity (validate, is_valid, *)
(* verify) and the RequirementsDocument aggregate (add_requirement,        *)
(* get_requirements_by_type, generate_report).                             *)
(*                                                                         *)
(* Objects are named by reference, as Python objects are: heap[r] is the   *)
(* Requirement bound to the caller's variable r once it is constructed,    *)
(* docs[d] the RequirementsDocument bound to d, whose list holds           *)
(* references to requirements.                                             *)
(* Text is modelled by TLA+ strings (accents dropped from the literals),   *)
(* datetime values by the reading of a clock that never runs backwards.    *)
(***************************************************************************)
EXTENDS Integers, Sequences, FiniteSets, TLC

VARIABLES
    heap,   \* the Requirement instances (lines 33-52), by reference
    docs,   \* the RequirementsDocument instances (lines 92-97), by reference
    now,    \* what datetime.now() returns
    ret     \* the last call made and what it returned

vars == <<heap, docs, now, ret>>

---------------------------------------------------------------------------
(* Bounds of the model *)

\* the clock is read in 0..MaxTime
MaxTime == 1
\* priorities are drawn from (1 - PrioritySlack)..(5 + PrioritySlack)
PrioritySlack == 1
\* add_requirement calls, summed over the documents
MaxAdds == 2

---------------------------------------------------------------------------
(* Enumerations *)

RequirementType == {"Funcional", "No Funcional", "Negocio", "Tecnico", "Usuario"}

PENDING == "Pendiente"
VERIFIED == "Verificado"
REJECTED == "Rechazado"
VerificationStatus == {PENDING, VERIFIED, REJECTED}

\* datetime.now() as evaluated once, when the class body is executed: the
\* origin of the model's clock
ClassDefinitionTime == 0

None == "None"

---------------------------------------------------------------------------
(* Inputs *)

Ids == {"REQ-001", "REQ-002"}
Titles == {"", "Registro de Productos"}
Descriptions == {"", "El sistema debe permitir registrar nuevos productos"}
Priorities == (1 - PrioritySlack)..(5 + PrioritySlack)
\* the priorities next to the two ends of the accepted range
EdgePriorities == ((1 - PrioritySlack)..1) \cup (5..(5 + PrioritySlack))
Notes == {"Requerimiento revisado y aprobado por el equipo tecnico", "Revisado de nuevo"}
\* the types given to requirements at document level, and the types asked for
UsedTypes == {"Funcional", "No Funcional"}
QueryTypes == UsedTypes \cup {"Usuario"}
\* the caller's variables holding requirements, as req1 in main()
ReqVars == {"req1", "req2"}
\* the caller's variables holding documents, as doc in main(), and their projects
DocVars == {"doc", "doc2"}
ProjectName(d) ==
    IF d = "doc" THEN "Sistema de Gestion de Inventario" ELSE "Otro Proyecto"
SmartFlags == {"is_specific", "is_measurable", "is_achievable", "is_relevant", "is_time_bound"}

---------------------------------------------------------------------------
(* class Requirement *)

\* The dataclass constructor: the five positional fields, the five SMART
\* flags, and the defaults of the metadata fields.
Requirement(id, title, description, type, priority, sp, me, ac, re, tb) ==
    [id |-> id, title |-> title, description |-> description, type |-> type,
     priority |-> priority,
     is_specific |-> sp, is_measurable |-> me, is_achievable |-> ac,
     is_relevant |-> re, is_time_bound |-> tb,
     created_date |-> ClassDefinitionTime,
     last_modified |-> ClassDefinitionTime,
     verification_status |-> PENDING,
     verification_notes |-> ""]

\* all([...]) over the five flags
AllSmart(self) ==
    /\ self.is_specific
    /\ self.is_measurable
    /\ self.is_achievable
    /\ self.is_relevant
    /\ self.is_time_bound

\* One "if cond: validation_errors.append(msg)" statement
AppendIf(errors, cond, msg) == IF cond THEN Append(errors, msg) ELSE errors

\* validate with the lower end of the priority range excluded (1 < priority)
validate_exclusive_low(self) ==
    LET e1 == AppendIf(<<>>, self.description = "",
                       "La descripcion no puede estar vacia")
        e2 == AppendIf(e1, self.title = "",
                       "El titulo no puede estar vacio")
        e3 == AppendIf(e2, ~(1 < self.priority /\ self.priority <= 5),
                       "La prioridad debe estar entre 1 y 5")
    IN  AppendIf(e3, ~AllSmart(self),
                 "El requerimiento no cumple con todos los criterios SMART")

\* validate with the title checked before the description
validate_title_first(self) ==
    LET e1 == AppendIf(<<>>, self.title = "",
                       "El titulo no puede estar vacio")
        e2 == AppendIf(e1, self.description = "",
                       "La descripcion no puede estar vacia")
        e3 == AppendIf(e2, ~(1 <= self.priority /\ self.priority <= 5),
                       "La prioridad debe estar entre 1 y 5")
    IN  AppendIf(e3, ~AllSmart(self),
                 "El requerimiento no cumple con todos los criterios SMART")

\* validate that takes a requirement already verified to need no checking
validate_skips_verified(self) ==
    IF self.verification_status = VERIFIED
    THEN <<>>
    ELSE LET e1 == AppendIf(<<>>, self.description = "",
                            "La descripcion no puede estar vacia")
             e2 == AppendIf(e1, self.title = "",
                            "El titulo no puede estar vacio")
             e3 == AppendIf(e2, ~(1 <= self.priority /\ self.priority <= 5),
                            "La prioridad debe estar entre 1 y 5")
         IN  AppendIf(e3, ~AllSmart(self),
                      "El requerimiento no cumple con todos los criterios SMART")

validate(self) ==
    LET e0 == <<>>
        e1 == AppendIf(e0, self.description = "",
                       "La descripcion no puede estar vacia")
        e2 == AppendIf(e1, self.title = "",
                       "El titulo no puede estar vacio")
        e3 == AppendIf(e2, ~(1 <= self.priority /\ self.priority <= 5),
                       "La prioridad debe estar entre 1 y 5")
        e4 == AppendIf(e3, ~AllSmart(self),
                       "El requerimiento no cumple con todos los criterios SMART")
    IN  e4

is_valid(self) == Len(validate(self)) = 0

\* sep.join(parts)
RECURSIVE join(_, _)
join(sep, parts) ==
    IF Len(parts) = 0 THEN ""
    ELSE IF Len(parts) = 1 THEN parts[1]
    ELSE parts[1] \o sep \o join(sep, Tail(parts))

\* verify that keeps the caller's notes in the rejection branch too
verify_keeps_notes(self, notes) ==
    IF is_valid(self)
    THEN [self EXCEPT !.verification_status = VERIFIED,
                      !.verification_notes = notes,
                      !.last_modified = now]
    ELSE [self EXCEPT !.verification_status = REJECTED,
                      !.verification_notes = notes]

\* verify that leaves last_modified alone in the accepting branch
verify_no_timestamp(self, notes) ==
    IF is_valid(self)
    THEN [self EXCEPT !.verification_status = VERIFIED,
                      !.verification_notes = notes]
    ELSE [self EXCEPT !.verification_status = REJECTED,
                      !.verification_notes =
                          "Errores de validacion: " \o join(", ", validate(self))]

\* verify that forgets to set the status in the rejection branch
verify_reject_keeps_status(self, notes) ==
    IF is_valid(self)
    THEN [self EXCEPT !.verification_status = VERIFIED,
                      !.verification_notes = notes,
                      !.last_modified = now]
    ELSE [self EXCEPT !.verification_notes =
                          "Errores de validacion: " \o join(", ", validate(self))]

\* verify that only ever rejects a requirement that is still pending
verify_sticky(self, notes) ==
    IF is_valid(self)
    THEN [self EXCEPT !.verification_status = VERIFIED,
                      !.verification_notes = notes,
                      !.last_modified = now]
    ELSE IF self.verification_status = VERIFIED
    THEN self
    ELSE [self EXCEPT !.verification_status = REJECTED,
                      !.verification_notes =
                          "Errores de validacion: " \o join(", ", validate(self))]

\* verify that counts a rejection as a modification too
verify_stamps_rejection(self, notes) ==
    IF is_valid(self)
    THEN [self EXCEPT !.verification_status = VERIFIED,
                      !.verification_notes = notes,
                      !.last_modified = now]
    ELSE [self EXCEPT !.verification_status = REJECTED,
                      !.verification_notes =
                          "Errores de validacion: " \o join(", ", validate(self)),
                      !.last_modified = now]

\* verify that adds the rejection message to the notes already there
verify_appends_notes(self, notes) ==
    IF is_valid(self)
    THEN [self EXCEPT !.verification_status = VERIFIED,
                      !.verification_notes = notes,
                      !.last_modified = now]
    ELSE [self EXCEPT !.verification_status = REJECTED,
                      !.verification_notes =
                          self.verification_notes \o "Errores de validacion: "
                              \o join(", ", validate(self))]

\* The object after self.verify(notes); datetime.now() reads the clock
verify(self, notes) ==
    IF is_valid(self)
    THEN [self EXCEPT !.verification_status = VERIFIED,
                      !.verification_notes = notes,
                      !.last_modified = now]
    ELSE [self EXCEPT !.verification_status = REJECTED,
                      !.verification_notes =
                          "Errores de validacion: " \o join(", ", validate(self))]

---------------------------------------------------------------------------
(* class RequirementsDocument *)

\* __init__: the list holds references into the heap
RequirementsDocument(project_name) ==
    [project_name |-> project_name,
     requirements |-> <<>>,
     created_date |-> now]

\* add_requirement that refuses a requirement whose id is already stored
add_requirement_unique_id(self, requirement) ==
    IF \E i \in DOMAIN self.requirements :
          heap[self.requirements[i]].id = heap[requirement].id
    THEN self
    ELSE [self EXCEPT !.requirements = Append(@, requirement)]

\* The document after self.add_requirement(requirement)
add_requirement(self, requirement) ==
    [self EXCEPT !.requirements = Append(@, requirement)]

\* get_requirements_by_type that returns each matching requirement once
get_requirements_by_type_once(self, req_type) ==
    LET all == SelectSeq(self.requirements, LAMBDA req : heap[req].type = req_type)
        first == {i \in DOMAIN all : \A j \in 1..(i - 1) : all[j] # all[i]}
    IN  IF first = DOMAIN all THEN all ELSE SubSeq(all, 1, Cardinality(first))

\* [req for req in self.requirements if req.type == req_type]
get_requirements_by_type(self, req_type) ==
    SelectSeq(self.requirements, LAMBDA req : heap[req].type = req_type)

RECURSIVE gcd(_, _)
gcd(a, b) == IF b = 0 THEN a ELSE gcd(b, a % b)

\* The exact value num / den of a float, in lowest terms
Float(num, den) ==
    [type |-> "float", num |-> num \div gcd(num, den), den |-> den \div gcd(num, den)]

\* The percentage with floor division: (verified_reqs // total_reqs) * 100
Percentage_floor_division(verified_reqs, total_reqs) ==
    IF total_reqs > 0
    THEN Float((verified_reqs \div total_reqs) * 100, 1)
    ELSE [type |-> "int", num |-> 0, den |-> 1]

\* (verified_reqs / total_reqs) * 100 if total_reqs > 0 else 0
Percentage(verified_reqs, total_reqs) ==
    IF total_reqs > 0
    THEN LET ratio == Float(verified_reqs, total_reqs)
         IN  Float(ratio.num * 100, ratio.den)
    ELSE [type |-> "int", num |-> 0, den |-> 1]

\* generate_report that counts every requirement that is no longer pending
generate_report_not_pending(self) ==
    LET total_reqs == Len(self.requirements)
        verified_reqs ==
            Len(SelectSeq(self.requirements,
                          LAMBDA r : heap[r].verification_status # PENDING))
    IN  [title |-> "Reporte de Requerimientos - " \o self.project_name,
         date |-> now,
         total |-> total_reqs,
         verified |-> verified_reqs,
         percentage |-> Percentage(verified_reqs, total_reqs)]

\* The report, line by line
generate_report(self) ==
    LET total_reqs == Len(self.requirements)
        verified_reqs ==
            Len(SelectSeq(self.requirements,
                          LAMBDA r : heap[r].verification_status = VERIFIED))
    IN  [title |-> "Reporte de Requerimientos - " \o self.project_name,
         date |-> now,
         total |-> total_reqs,
         verified |-> verified_reqs,
         percentage |-> Percentage(verified_reqs, total_reqs)]

---------------------------------------------------------------------------
(* State *)

Refs == DOMAIN heap
DocRefs == DOMAIN docs

\* add_requirement calls made so far
TotalAdds ==
    Cardinality(UNION {{<<d, i>> : i \in DOMAIN docs[d].requirements} : d \in DocRefs})

NoCall == [op |-> "none", self |-> None, arg |-> None, value |-> None]

\* The module is imported and the caller has constructed its documents; no
\* requirement has been constructed yet.
Init ==
    /\ now = ClassDefinitionTime
    /\ heap = <<>>
    /\ docs = [d \in DocVars |-> RequirementsDocument(ProjectName(d))]
    /\ ret = NoCall

---------------------------------------------------------------------------
(* Operations *)

\* r = Requirement(id=..., title=..., ...): a new object, bound to r
NewRequirement(r, id, title, description, type, priority, sp, me, ac, re, tb) ==
    /\ r \notin Refs
    /\ heap' = [q \in Refs \cup {r} |->
                    IF q = r
                    THEN Requirement(id, title, description, type, priority,
                                     sp, me, ac, re, tb)
                    ELSE heap[q]]
    /\ ret' = [op |-> "Requirement", self |-> r, arg |-> None, value |-> None]
    /\ UNCHANGED <<docs, now>>

\* r.validate()
CallValidate(r) ==
    /\ ret' = [op |-> "validate", self |-> r, arg |-> None,
               value |-> validate(heap[r])]
    /\ UNCHANGED <<heap, docs, now>>

\* r.is_valid()
CallIsValid(r) ==
    /\ ret' = [op |-> "is_valid", self |-> r, arg |-> None,
               value |-> is_valid(heap[r])]
    /\ UNCHANGED <<heap, docs, now>>

\* verify called on a copy of the requirement: the object the caller and
\* the documents hold stays as it was
CallVerify_on_copy(r, notes) ==
    /\ ret' = [op |-> "verify", self |-> r, arg |-> None, value |-> None]
    /\ UNCHANGED <<heap, docs, now>>

\* r.verify(notes)
CallVerify(r, notes) ==
    /\ ret' = [op |-> "verify", self |-> r, arg |-> None, value |-> None]
    /\ heap' = [heap EXCEPT ![r] = verify(heap[r], notes)]
    /\ UNCHANGED <<docs, now>>

\* An assignment that brings the status of a verified or rejected requirement
\* up to date with the new field values
SetAttr_recomputes(r, field, v) ==
    /\ ret' = [op |-> "setattr", self |-> r, arg |-> None, value |-> None]
    /\ heap' = [heap EXCEPT ![r] =
                    LET q == [@ EXCEPT ![field] = v]
                    IN  IF q.verification_status = PENDING
                        THEN q
                        ELSE [q EXCEPT !.verification_status =
                                 IF is_valid(q) THEN VERIFIED ELSE REJECTED]]
    /\ UNCHANGED <<docs, now>>

\* r.<field> = v: the dataclass is not frozen, its fields are assigned directly
SetAttr(r, field, v) ==
    /\ ret' = [op |-> "setattr", self |-> r, arg |-> None, value |-> None]
    /\ heap' = [heap EXCEPT ![r][field] = v]
    /\ UNCHANGED <<docs, now>>

\* add_requirement on a list that belongs to the class, not to the instance:
\* every document sees the requirement
CallAddRequirement_class_list(d, r) ==
    /\ ret' = [op |-> "add_requirement", self |-> d, arg |-> r, value |-> None]
    /\ TotalAdds < MaxAdds
    /\ docs' = [e \in DocRefs |-> add_requirement(docs[e], r)]
    /\ UNCHANGED <<heap, now>>

\* d.add_requirement(r)
CallAddRequirement(d, r) ==
    /\ ret' = [op |-> "add_requirement", self |-> d, arg |-> r, value |-> None]
    /\ TotalAdds < MaxAdds
    /\ docs' = [docs EXCEPT ![d] = add_requirement(docs[d], r)]
    /\ UNCHANGED <<heap, now>>

\* d.get_requirements_by_type(req_type)
CallGetRequirementsByType(d, req_type) ==
    /\ ret' = [op |-> "get_requirements_by_type", self |-> d, arg |-> req_type,
               value |-> get_requirements_by_type(docs[d], req_type)]
    /\ UNCHANGED <<heap, docs, now>>

\* d.generate_report()
CallGenerateReport(d) ==
    /\ ret' = [op |-> "generate_report", self |-> d, arg |-> None,
               value |-> generate_report(docs[d])]
    /\ UNCHANGED <<heap, docs, now>>

\* Time passes between two calls
Tick ==
    /\ now < MaxTime
    /\ now' = now + 1
    /\ UNCHANGED <<heap, docs, ret>>

---------------------------------------------------------------------------
(* Specification of validate and is_valid as functions of the fields: one  *)
(* requirement, its fields drawn from the whole of the input sets.         *)

NextValidate ==
    \/ \E r \in {"req1"} \ Refs,
          id \in Ids, title \in Titles, description \in Descriptions,
          type \in RequirementType, priority \in Priorities,
          sp \in BOOLEAN, me \in BOOLEAN, ac \in BOOLEAN,
          re \in BOOLEAN, tb \in BOOLEAN :
          NewRequirement(r, id, title, description, type, priority,
                         sp, me, ac, re, tb)
    \/ \E r \in Refs : CallValidate(r)
    \/ \E r \in Refs : CallIsValid(r)

SpecValidate == Init /\ [][NextValidate]_vars

---------------------------------------------------------------------------
(* Specification of one requirement's life: constructed, its validated     *)
(* fields edited, validated and verified any number of times while the     *)
(* clock advances.                                                         *)

NextRequirement ==
    \/ \E r \in {"req1"} \ Refs,
          title \in Titles, description \in Descriptions,
          priority \in EdgePriorities,
          sp \in BOOLEAN, me \in BOOLEAN, ac \in BOOLEAN,
          re \in BOOLEAN, tb \in BOOLEAN :
          NewRequirement(r, "REQ-001", title, description, "Funcional",
                         priority, sp, me, ac, re, tb)
    \/ \E r \in Refs, v \in Titles : SetAttr(r, "title", v)
    \/ \E r \in Refs, v \in Descriptions : SetAttr(r, "description", v)
    \/ \E r \in Refs, v \in EdgePriorities : SetAttr(r, "priority", v)
    \/ \E r \in Refs, f \in SmartFlags, v \in BOOLEAN : SetAttr(r, f, v)
    \/ \E r \in Refs : CallValidate(r)
    \/ \E r \in Refs : CallIsValid(r)
    \/ \E r \in Refs, notes \in Notes : CallVerify(r, notes)
    \/ Tick

SpecRequirement == Init /\ [][NextRequirement]_vars

---------------------------------------------------------------------------
(* Specification of the documents: the requirements of ReqVars, complete  *)
(* but for is_time_bound, which is given at construction and edited later; *)
(* the documents of DocVars; every operation of both classes.  The clock   *)
(* stands still here: the dates are the subject of SpecRequirement.        *)

Next ==
    \/ \E r \in ReqVars \ Refs, id \in Ids, type \in UsedTypes, tb \in BOOLEAN :
          NewRequirement(r, id, "Registro de Productos",
                         "El sistema debe permitir registrar nuevos productos",
                         type, 5, TRUE, TRUE, TRUE, TRUE, tb)
    \/ \E r \in Refs, v \in BOOLEAN : SetAttr(r, "is_time_bound", v)
    \/ \E r \in Refs : CallValidate(r)
    \/ \E r \in Refs : CallIsValid(r)
    \/ \E r \in Refs :
          CallVerify(r, "Requerimiento revisado y aprobado por el equipo tecnico")
    \/ \E d \in DocRefs, r \in Refs : CallAddRequirement(d, r)
    \/ \E d \in DocRefs, t \in QueryTypes : CallGetRequirementsByType(d, t)
    \/ \E d \in DocRefs : CallGenerateReport(d)

Spec == Init /\ [][Next]_vars

---------------------------------------------------------------------------
(* Specification of the dates: the requirements of ReqVars, complete but   *)
(* for is_time_bound, and the documents of DocVars, under every operation  *)
(* of both classes while the clock advances.                               *)

NextDates ==
    \/ \E r \in ReqVars \ Refs, tb \in BOOLEAN :
          NewRequirement(r, "REQ-001", "Registro de Productos",
                         "El sistema debe permitir registrar nuevos productos",
                         "Funcional", 5, TRUE, TRUE, TRUE, TRUE, tb)
    \/ \E r \in Refs, v \in BOOLEAN : SetAttr(r, "is_time_bound", v)
    \/ \E r \in Refs : CallValidate(r)
    \/ \E r \in Refs : CallIsValid(r)
    \/ \E r \in Refs, notes \in Notes : CallVerify(r, notes)
    \/ \E d \in DocRefs, r \in Refs : CallAddRequirement(d, r)
    \/ \E d \in DocRefs, t \in QueryTypes : CallGetRequirementsByType(d, t)
    \/ \E d \in DocRefs : CallGenerateReport(d)
    \/ Tick

SpecDates == Init /\ [][NextDates]_vars

---------------------------------------------------------------------------
(* Properties of validate and is_valid *)

\* What the specification calls a fully valid requirement
FullyValid(q) ==
    /\ q.title # ""
    /\ q.description # ""
    /\ q.priority \in 1..5
    /\ \A f \in SmartFlags : q[f]

\* The four checks in the order the specification lists them
ErrorTable(q) ==
    << [holds |-> q.description = "",
        msg |-> "La descripcion no puede estar vacia"],
       [holds |-> q.title = "",
        msg |-> "El titulo no puede estar vacio"],
       [holds |-> q.priority < 1 \/ q.priority > 5,
        msg |-> "La prioridad debe estar entre 1 y 5"],
       [holds |-> \E f \in SmartFlags : ~q[f],
        msg |-> "El requerimiento no cumple con todos los criterios SMART"] >>

ExpectedErrors(q) ==
    LET sel == SelectSeq(ErrorTable(q), LAMBDA e : e.holds)
    IN  [i \in 1..Len(sel) |-> sel[i].msg]

\* C1: is_valid() returns true iff title and description are non-empty,
\* 1 <= priority <= 5 and all five SMART flags are true; with everything else
\* in order, priorities 1 and 5 are accepted and 0 and 6 are not, and any
\* single false SMART flag makes the result false.
C1_IsValidIff ==
    ret.op = "is_valid" =>
        LET q == heap[ret.self] IN
        /\ ret.value = FullyValid(q)
        /\ (q.title # "" /\ q.description # "" /\ \A f \in SmartFlags : q[f]) =>
              /\ (q.priority \in {1, 5} => ret.value = TRUE)
              /\ (q.priority \in {0, 6} => ret.value = FALSE)
        /\ ((\E f \in SmartFlags : ~q[f]) => ret.value = FALSE)

\* is_valid() has answered true for a priority at the upper end of the range
C1_Witness ==
    /\ ret.op = "is_valid"
    /\ ret.value = TRUE
    /\ heap[ret.self].priority = 5

\* C2: validate() returns exactly the errors whose condition holds, each at
\* most once, in the order description, title, priority, SMART; the SMART
\* check contributes a single error however many flags are false; the result
\* is empty exactly when the requirement is fully valid.
C2_ValidateErrors ==
    ret.op = "validate" =>
        LET q == heap[ret.self] IN
        /\ ret.value = ExpectedErrors(q)
        /\ Len(ret.value) <= 4
        /\ \A i, j \in 1..Len(ret.value) : ret.value[i] = ret.value[j] => i = j
        /\ (ret.value = <<>>) <=> FullyValid(q)

\* validate() has returned all four errors, with several SMART flags false
C2_Witness ==
    /\ ret.op = "validate"
    /\ Len(ret.value) = 4
    /\ Cardinality({f \in SmartFlags : ~heap[ret.self][f]}) >= 2

---------------------------------------------------------------------------
(* Properties of verify *)

\* seq[1], ..., seq[k] separated by ", "
RECURSIVE CommaListUpTo(_, _)
CommaListUpTo(seq, k) ==
    IF k = 0 THEN ""
    ELSE IF k = 1 THEN seq[1]
    ELSE CommaListUpTo(seq, k - 1) \o ", " \o seq[k]

\* The rejection message the specification describes for requirement q
ExpectedRejection(q) ==
    "Errores de validacion: "
        \o CommaListUpTo(ExpectedErrors(q), Len(ExpectedErrors(q)))

\* C3: verify(notes) on a valid requirement leaves the status Verified, the
\* notes equal to the caller's notes whatever they were before, and
\* last_modified equal to the current time, which is not before its
\* previous value.
C3_VerifyValid ==
    [][\A r \in Refs, n \in Notes :
          (CallVerify(r, n) /\ FullyValid(heap[r])) =>
              /\ heap'[r].verification_status = VERIFIED
              /\ heap'[r].verification_notes = n
              /\ heap'[r].last_modified = now
              /\ heap'[r].last_modified >= heap[r].last_modified]_vars

\* A requirement was verified after the clock had advanced, and carries the
\* time of that call
C3_Witness ==
    /\ ret.op = "verify"
    /\ heap[ret.self].verification_status = VERIFIED
    /\ heap[ret.self].verification_notes \in Notes
    /\ heap[ret.self].last_modified = now
    /\ now > ClassDefinitionTime

\* C4: verify(notes) on an invalid requirement leaves the status Rejected and
\* the notes equal to the prefix followed by the current validation errors
\* joined by ", " in validate() order; the caller's notes are stored nowhere
\* and last_modified (like every other field) is unchanged.
C4_VerifyInvalid ==
    [][\A r \in Refs, n \in Notes :
          (CallVerify(r, n) /\ ~FullyValid(heap[r])) =>
              /\ heap'[r] = [heap[r] EXCEPT
                                !.verification_status = REJECTED,
                                !.verification_notes = ExpectedRejection(heap[r])]
              /\ heap'[r].verification_notes # n
              /\ heap'[r].last_modified = heap[r].last_modified
              /\ docs' = docs]_vars

\* A requirement failing all four checks was rejected after the clock had
\* advanced past its last_modified
C4_Witness ==
    /\ ret.op = "verify"
    /\ heap[ret.self].verification_status = REJECTED
    /\ heap[ret.self].verification_notes =
          "Errores de validacion: La descripcion no puede estar vacia, El titulo no puede estar vacio, La prioridad debe estar entre 1 y 5, El requerimiento no cumple con todos los criterios SMART"
    /\ heap[ret.self].last_modified < now

\* C6: verify() is defined for every field value and always ends with the
\* status Verified or Rejected; a status that has left Pending never
\* returns to it.
C6_VerifyTotal ==
    /\ [](\A r \in Refs, n \in Notes : ENABLED CallVerify(r, n))
    /\ [][\A r \in Refs, n \in Notes :
            CallVerify(r, n) =>
                heap'[r].verification_status \in {VERIFIED, REJECTED}]_vars
    /\ [][\A r \in Refs :
            heap[r].verification_status # PENDING =>
                heap'[r].verification_status # PENDING]_vars

\* verify() has completed on a requirement with an empty title, an empty
\* description and a priority outside 1..5
C6_Witness ==
    /\ ret.op = "verify"
    /\ heap[ret.self].title = ""
    /\ heap[ret.self].description = ""
    /\ heap[ret.self].priority \notin 1..5
    /\ heap[ret.self].verification_status = REJECTED

\* C7: a requirement constructed without explicit dates has created_date
\* and last_modified equal to the time of its construction.
C7_CreatedAtConstruction ==
    [][\A r \in DOMAIN heap' \ Refs :
          /\ heap'[r].created_date = now
          /\ heap'[r].last_modified = now]_vars

---------------------------------------------------------------------------
(* Properties of the status, and of the documents *)

\* The step is a call of one of the operations that C5 says leave every
\* status alone
ReadOrAddStep ==
    ret'.op \in {"validate", "is_valid", "add_requirement",
                 "get_requirements_by_type", "generate_report"}

\* C5: a requirement starts Pending; its status changes only in a verify()
\* step on it; verify() ends in Verified when the requirement is valid at
\* the call and in Rejected when it is not, whatever the status was;
\* validate, is_valid, add_requirement, get_requirements_by_type and
\* generate_report leave every status as it was.
C5_StatusMachine ==
    /\ [][\A r \in DOMAIN heap' \ Refs :
            heap'[r].verification_status = PENDING]_vars
    /\ [][\A r \in Refs :
            heap'[r].verification_status # heap[r].verification_status =>
                \E n \in Notes : CallVerify(r, n)]_vars
    /\ [][\A r \in Refs, n \in Notes :
            CallVerify(r, n) =>
                heap'[r].verification_status =
                    IF FullyValid(heap[r]) THEN VERIFIED ELSE REJECTED]_vars
    /\ [][ReadOrAddStep =>
            \A r \in Refs :
                heap'[r].verification_status = heap[r].verification_status]_vars

\* verify() has rejected a requirement that is stored in a document, while
\* another requirement is Verified
C5_Witness ==
    /\ ret.op = "verify"
    /\ heap[ret.self].verification_status = REJECTED
    /\ \E d \in DocRefs :
          \E i \in DOMAIN docs[d].requirements :
              docs[d].requirements[i] = ret.self
    /\ \E r \in Refs : heap[r].verification_status = VERIFIED

\* C8: add_requirement(r) succeeds for every requirement and appends it:
\* the length grows by one, the earlier entries keep their places, r is the
\* last entry, whatever its validity, its status or the ids already stored.
C8_AddAppends ==
    /\ [](TotalAdds < MaxAdds =>
            \A d \in DocRefs, r \in Refs : ENABLED CallAddRequirement(d, r))
    /\ [][\A d \in DocRefs, r \in Refs :
            CallAddRequirement(d, r) =>
                LET old == docs[d].requirements
                    new == docs'[d].requirements
                IN  /\ Len(new) = Len(old) + 1
                    /\ \A i \in 1..Len(old) : new[i] = old[i]
                    /\ new[Len(new)] = r
                    /\ \A e \in DocRefs \ {d} : docs'[e] = docs[e]
                    /\ heap' = heap]_vars

\* A document holds two different requirements with the same id, the second
\* of them invalid and Rejected
C8_Witness ==
    /\ ret.op = "add_requirement"
    /\ LET q == docs[ret.self].requirements
       IN  /\ Len(q) = 2
           /\ q[1] # q[2]
           /\ heap[q[1]].id = heap[q[2]].id
           /\ ~FullyValid(heap[q[2]])
           /\ heap[q[2]].verification_status = REJECTED

\* The number of places of seq that hold x
Count(seq, x) == Cardinality({i \in DOMAIN seq : seq[i] = x})

\* out is stored with some places left out, the others in their order
IsSubsequence(out, stored) ==
    \E f \in [DOMAIN out -> DOMAIN stored] :
        /\ \A i, j \in DOMAIN out : i < j => f[i] < f[j]
        /\ \A i \in DOMAIN out : stored[f[i]] = out[i]

\* C9: get_requirements_by_type(t) returns exactly the stored requirements
\* of type t, each as often as it was added, in insertion order, and the
\* empty sequence when nothing matches; the call changes neither the
\* document nor any requirement.
C9_FilterByType ==
    /\ [](ret.op = "get_requirements_by_type" =>
            LET stored == docs[ret.self].requirements
                out == ret.value
            IN  /\ \A i \in DOMAIN out : heap[out[i]].type = ret.arg
                /\ \A r \in Refs :
                      Count(out, r) =
                          IF heap[r].type = ret.arg THEN Count(stored, r) ELSE 0
                /\ IsSubsequence(out, stored)
                /\ (\A i \in DOMAIN stored : heap[stored[i]].type # ret.arg) =>
                      out = <<>>)
    /\ [][\A d \in DocRefs, t \in QueryTypes :
            CallGetRequirementsByType(d, t) => heap' = heap /\ docs' = docs]_vars

\* One of two stored requirements of different types has been returned
C9_Witness ==
    /\ ret.op = "get_requirements_by_type"
    /\ Len(docs[ret.self].requirements) = 2
    /\ Len(ret.value) = 1
    /\ ret.value[1] = docs[ret.self].requirements[2]

\* C10: generate_report() reports the number of stored requirements, the
\* number of them whose status is Verified, and (verified / total) * 100,
\* or 0 for an empty document; the call changes neither the document nor
\* any requirement.
C10_Report ==
    /\ [](ret.op = "generate_report" =>
            LET stored == docs[ret.self].requirements
                rep == ret.value
                pct == ret.value.percentage
            IN  /\ rep.total = Len(stored)
                /\ rep.verified =
                      Cardinality({i \in DOMAIN stored :
                          heap[stored[i]].verification_status = VERIFIED})
                /\ pct.den > 0
                /\ (rep.total > 0 =>
                      pct.num * rep.total = rep.verified * 100 * pct.den)
                /\ (rep.total = 0 => (rep.verified = 0 /\ pct.num = 0)))
    /\ [][\A d \in DocRefs :
            CallGenerateReport(d) => heap' = heap /\ docs' = docs]_vars

\* A report on a document holding a Verified and a Rejected requirement:
\* total 2, verified 1, 50 percent
C10_Witness ==
    /\ ret.op = "generate_report"
    /\ ret.value.total = 2
    /\ ret.value.verified = 1
    /\ ret.value.percentage.num = 50
    /\ ret.value.percentage.den = 1
    /\ \E i \in DOMAIN docs[ret.self].requirements :
          heap[docs[ret.self].requirements[i]].verification_status = REJECTED

---------------------------------------------------------------------------
(* Properties of the effects of validate, is_valid and verify *)

\* Requirement q with other metadata: status s, notes n, both dates t
WithMetadata(q, s, n, t) ==
    [q EXCEPT !.verification_status = s, !.verification_notes = n,
              !.last_modified = t, !.created_date = t]

\* C11: validate() and is_valid() change no field of the requirement (and
\* nothing else); their result is the same whatever the status, the notes
\* and the dates are; called again with no mutation in between they return
\* the same result.
C11_ValidatePure ==
    /\ [][\A r \in Refs :
            (CallValidate(r) \/ CallIsValid(r)) =>
                heap' = heap /\ docs' = docs /\ now' = now]_vars
    /\ [](ret.op \in {"validate", "is_valid"} =>
            \A s \in VerificationStatus, n \in Notes \cup {""}, t \in 0..MaxTime :
                LET q == WithMetadata(heap[ret.self], s, n, t)
                IN  ret.value = IF ret.op = "validate" THEN validate(q)
                                                       ELSE is_valid(q))
    /\ [][\A r \in Refs :
            /\ (ret.op = "validate" /\ ret.self = r /\ CallValidate(r)) =>
                   ret'.value = ret.value
            /\ (ret.op = "is_valid" /\ ret.self = r /\ CallIsValid(r)) =>
                   ret'.value = ret.value]_vars

\* validate() has returned errors for a requirement that is Verified and was
\* modified after the class was defined
C11_Witness ==
    /\ ret.op = "validate"
    /\ ret.value # <<>>
    /\ heap[ret.self].verification_status = VERIFIED
    /\ heap[ret.self].last_modified > ClassDefinitionTime

\* C12: created_date never changes after construction; last_modified
\* changes only in a verify() step that ends in Verified; a verify() that
\* ends in Rejected and every validate, is_valid, add_requirement,
\* get_requirements_by_type and generate_report step leave it unchanged.
C12_DatesFrame ==
    /\ [][\A r \in Refs : heap'[r].created_date = heap[r].created_date]_vars
    /\ [][\A r \in Refs :
            heap'[r].last_modified # heap[r].last_modified =>
                /\ \E n \in Notes : CallVerify(r, n)
                /\ heap'[r].verification_status = VERIFIED]_vars
    /\ [][\A r \in Refs, n \in Notes :
            (CallVerify(r, n) /\ heap'[r].verification_status = REJECTED) =>
                heap'[r].last_modified = heap[r].last_modified]_vars
    /\ [][ReadOrAddStep =>
            \A r \in Refs : heap'[r].last_modified = heap[r].last_modified]_vars

\* verify() has rejected a requirement that is stored in a document, at a
\* time later than its last_modified
C12_Witness ==
    /\ ret.op = "verify"
    /\ heap[ret.self].verification_status = REJECTED
    /\ heap[ret.self].last_modified < now
    /\ \E d \in DocRefs : Len(docs[d].requirements) > 0

\* The number of stored entries of document d that are Verified
VerifiedEntries(d) ==
    Cardinality({i \in DOMAIN docs[d].requirements :
        heap[docs[d].requirements[i]].verification_status = VERIFIED})

\* C13: the documents hold requirements by reference: after a verify() on a
\* requirement that is already stored, every stored entry of it shows the new
\* status and the report moves by the number of those entries; an edited
\* field is the field of the stored entry; what get_requirements_by_type
\* returns are the stored references; a report counts the statuses as they
\* are when it is made.
C13_ByReference ==
    /\ [][\A r \in Refs, n \in Notes :
            CallVerify(r, n) =>
                \A d \in DocRefs :
                    LET stored == docs[d].requirements
                        k == Count(stored, r)
                        was == IF heap[r].verification_status = VERIFIED THEN 1 ELSE 0
                        is == IF FullyValid(heap[r]) THEN 1 ELSE 0
                    IN  /\ \A i \in DOMAIN stored :
                              stored[i] = r =>
                                  heap'[docs'[d].requirements[i]].verification_status =
                                      IF FullyValid(heap[r]) THEN VERIFIED ELSE REJECTED
                        /\ generate_report(docs[d])'.verified =
                              generate_report(docs[d]).verified + k * (is - was)]_vars
    /\ [][\A r \in Refs, v \in BOOLEAN :
            SetAttr(r, "is_time_bound", v) =>
                \A d \in DocRefs : \A i \in DOMAIN docs[d].requirements :
                    docs[d].requirements[i] = r =>
                        heap'[docs'[d].requirements[i]].is_time_bound = v]_vars
    /\ [](ret.op = "get_requirements_by_type" =>
            \A i \in DOMAIN ret.value :
                \E j \in DOMAIN docs[ret.self].requirements :
                    ret.value[i] = docs[ret.self].requirements[j])
    /\ [](\A d \in DocRefs : generate_report(docs[d]).verified = VerifiedEntries(d))

\* verify() has just accepted a requirement that a document already holds
\* twice, and that document's report counts both entries
C13_Witness ==
    /\ ret.op = "verify"
    /\ heap[ret.self].verification_status = VERIFIED
    /\ \E d \in DocRefs :
          /\ Count(docs[d].requirements, ret.self) = 2
          /\ generate_report(docs[d]).verified = 2

\* C14: verify() called twice in a row on an unchanged requirement gives
\* the same status the second time as the first, whatever the notes; with
\* the same notes it gives the same verification_notes; when the status is
\* Rejected the whole requirement is the same after the second call.
C14_VerifyIdempotent ==
    /\ [](\A r \in Refs, n1 \in Notes, n2 \in Notes :
            LET first == verify(heap[r], n1)
                second == verify(first, n2)
            IN  /\ second.verification_status = first.verification_status
                /\ n1 = n2 => second.verification_notes = first.verification_notes
                /\ first.verification_status = REJECTED => second = first)
    /\ [][\A r \in Refs, n \in Notes :
            (ret.op = "verify" /\ ret.self = r /\ CallVerify(r, n)) =>
                /\ heap'[r].verification_status = heap[r].verification_status
                /\ (heap[r].verification_status = VERIFIED
                        /\ n = heap[r].verification_notes) =>
                       heap'[r].verification_notes = heap[r].verification_notes
                /\ heap[r].verification_status = REJECTED => heap'[r] = heap[r]]_vars

\* verify() has rejected a requirement with two validation errors: a second
\* call now would be the call in a row
C14_Witness ==
    /\ ret.op = "verify"
    /\ heap[ret.self].verification_status = REJECTED
    /\ Len(validate(heap[ret.self])) = 2

\* The documents that hold requirement r
Holders(r) == {d \in DocRefs : Count(docs[d].requirements, r) > 0}

\* C15: no requirement is stored in the lists of two different documents.
C15_NeverShared ==
    \A r \in Refs : Cardinality(Holders(r)) <= 1

\* C15, as amended: a requirement comes to be stored in a document only by
\* an add_requirement call on that document with that requirement, once per
\* call; so it is stored in two documents only when the caller has added it
\* to each of them.
C15_SharedOnlyByCaller ==
    [][\A d \in DocRefs :
          docs'[d].requirements # docs[d].requirements =>
              /\ ret'.op = "add_requirement"
              /\ ret'.self = d
              /\ docs'[d].requirements = Append(docs[d].requirements, ret'.arg)
              /\ \A e \in DocRefs \ {d} : docs'[e] = docs[e]]_vars

\* The caller has added one requirement to both documents
C15_Witness ==
    /\ ret.op = "add_requirement"
    /\ Cardinality(Holders(ret.arg)) = 2

\* C16: for every document, in every reachable state, the report has
\* 0 <= verified <= total and a percentage between 0 and 100; the percentage
\* is 100 exactly when the document is non-empty and every stored
\* requirement is Verified, and 0 exactly when no stored requirement is
\* Verified.
C16_PercentageRange ==
    \A d \in DocRefs :
        LET rep == generate_report(docs[d])
            pct == rep.percentage
            stored == docs[d].requirements
            AllVerified ==
                \A i \in DOMAIN stored :
                    heap[stored[i]].verification_status = VERIFIED
            NoneVerified ==
                \A i \in DOMAIN stored :
                    heap[stored[i]].verification_status # VERIFIED
        IN  /\ 0 <= rep.verified
            /\ rep.verified <= rep.total
            /\ rep.total = Len(stored)
            /\ pct.den > 0
            /\ 0 <= pct.num
            /\ pct.num <= 100 * pct.den
            /\ (pct.num = 100 * pct.den) <=> (stored # <<>> /\ AllVerified)
            /\ (pct.num = 0) <=> NoneVerified

\* One valid requirement, verified and added: total 1, verified 1, 100 %
C16_Witness ==
    /\ ret.op = "generate_report"
    /\ ret.value = generate_report(docs[ret.self])
    /\ ret.value.total = 1
    /\ ret.value.verified = 1
    /\ ret.value.percentage = Float(100, 1)
    /\ is_valid(heap[docs[ret.self].requirements[1]])

\* C17: the status records the outcome of the most recent verify() and
\* nothing else. A requirement is constructed Pending with empty notes and
\* the initial last_modified; a Pending requirement has empty notes and its
\* initial last_modified; every verify() leaves the status Verified with the
\* notes of that call if the requirement was valid at the call, Rejected
\* with the generated message of that call if it was not, and never
\* Pending; every step that is not a verify() of the requirement, an edit
\* of a validated field included, leaves its status, notes and
\* last_modified as they were. By induction over the steps, Pending means
\* verify() was never called, and Verified and Rejected tell the validity
\* at the most recent call.
C17_StatusHistory ==
    /\ [](\A r \in Refs :
            heap[r].verification_status = PENDING =>
                /\ heap[r].verification_notes = ""
                /\ heap[r].last_modified = ClassDefinitionTime)
    /\ [][\A r \in DOMAIN heap' :
            r \notin Refs =>
                /\ heap'[r].verification_status = PENDING
                /\ heap'[r].verification_notes = ""
                /\ heap'[r].last_modified = ClassDefinitionTime]_vars
    /\ [][\A r \in Refs, n \in Notes :
            CallVerify(r, n) =>
                /\ heap'[r].verification_status # PENDING
                /\ (heap'[r].verification_status = VERIFIED) <=> FullyValid(heap[r])
                /\ (heap'[r].verification_status = REJECTED) <=> ~FullyValid(heap[r])
                /\ FullyValid(heap[r]) => heap'[r].verification_notes = n
                /\ ~FullyValid(heap[r]) =>
                       heap'[r].verification_notes = ExpectedRejection(heap[r])]_vars
    /\ [][\A r \in Refs :
            (~ \E n \in Notes : CallVerify(r, n)) =>
                /\ heap'[r].verification_status = heap[r].verification_status
                /\ heap'[r].verification_notes = heap[r].verification_notes
                /\ heap'[r].last_modified = heap[r].last_modified]_vars

\* A requirement verified while valid, then edited into an invalid one: the
\* status and the notes are still those of the verify() call
C17_Witness ==
    /\ ret.op = "setattr"
    /\ heap[ret.self].verification_status = VERIFIED
    /\ heap[ret.self].verification_notes \in Notes
    /\ ~ is_valid(heap[ret.self])

====
